---- MODULE Spec2Model ----
(***************************************************************************)
(* Model of python_splitters.py: python_random_split, _do_stratification   *)
(* and python_chrono_split.                                                *)
(*                                                                         *)
(* A dataset is a sequence of rows; a row is identified by its position in *)
(* the input sequence (the DataFrame index) and carries a user id, an item *)
(* id and a timestamp.  Intermediate DataFrames are sequences of row ids.  *)
(* Ratios are exact rationals: a sequence of numerators over one           *)
(* denominator.  User ids, item ids and timestamps are non-null values.    *)
(* split_utils (process_split_ratio, min_rating_filter_pandas and          *)
(* split_pandas_data_with_ratios) is modelled from its specification.      *)
(***************************************************************************)
EXTENDS Integers, Sequences, FiniteSets, TLC

\* ------------------------------------------------------------------ bounds
MaxRows == 2
MaxSeed == 1

\* Default seed of _do_stratification, used by python_chrono_split.
DefaultSeed == 42

Users == {1, 2}
Items == {1, 2}
Times == {1, 2}
Seeds == 0..MaxSeed

Row == [user : Users, item : Items, ts : Times]

\* ------------------------------------------------------- sequence helpers
SumSeq(s) ==
    LET sum[i \in 0..Len(s)] == IF i = 0 THEN 0 ELSE sum[i - 1] + s[i]
    IN  sum[Len(s)]

Flatten(ss) ==
    LET flat[i \in 0..Len(ss)] == IF i = 0 THEN <<>> ELSE flat[i - 1] \o ss[i]
    IN  flat[Len(ss)]

SelectIds(s, keep) == SelectSeq(s, LAMBDA id : id \in keep)

Range(s) == {s[i] : i \in 1..Len(s)}

\* ---------------------------------------------------------------- ratios
\* A ratio argument: a single float nums[1]/den, or a list whose i-th
\* element is nums[i]/den.
Float(p, q) == [kind |-> "float", nums |-> <<p>>, den |-> q]
List(ns, q) == [kind |-> "list", nums |-> ns, den |-> q]

\* process_split_ratio: (multi, ratio) or an error.
process_split_ratio(r) ==
    IF r.kind = "float"
    THEN IF r.nums[1] <= 0 \/ r.nums[1] >= r.den
         THEN [ok |-> FALSE, multi |-> FALSE, nums |-> <<>>, den |-> 1]
         ELSE [ok |-> TRUE, multi |-> FALSE, nums |-> r.nums, den |-> r.den]
    ELSE IF Len(r.nums) < 2 \/ \E i \in 1..Len(r.nums) : r.nums[i] <= 0
         THEN [ok |-> FALSE, multi |-> TRUE, nums |-> <<>>, den |-> 1]
         ELSE IF SumSeq(r.nums) = r.den
              THEN [ok |-> TRUE, multi |-> TRUE, nums |-> r.nums, den |-> r.den]
              \* x / sum: (nums[i]/den) / (SumSeq(nums)/den)
              ELSE [ok |-> TRUE, multi |-> TRUE, nums |-> r.nums,
                    den |-> SumSeq(r.nums)]

\* ratio = ratio if multi_split else [ratio, 1 - ratio]
TwoWayRatio(p) ==
    IF p.multi THEN [nums |-> p.nums, den |-> p.den]
    ELSE [nums |-> <<p.nums[1], p.den - p.nums[1]>>, den |-> p.den]

\* Python round() of the non-negative rational a/b: ties go to the even
\* integer.
Round(a, b) ==
    LET q == a \div b
        r == a % b
    IN  IF 2 * r < b THEN q
        ELSE IF 2 * r > b THEN q + 1
        ELSE IF q % 2 = 0 THEN q ELSE q + 1

\* Cumulative numerators c_1 .. c_k of a ratio.
Cumulative(nums) == [i \in 1..Len(nums) |-> SumSeq(SubSeq(nums, 1, i))]

\* Row-count boundaries b_0 = 0, b_i = round(c_i * n), b_k = n; the function
\* is indexed 0..k.
Boundaries(n, ratio) ==
    LET k == Len(ratio.nums)
        c == Cumulative(ratio.nums)
    IN  [i \in 0..k |-> IF i = 0 THEN 0
                        ELSE IF i = k THEN n
                        ELSE Round(c[i] * n, ratio.den)]

\* ------------------------------------------------------- seeded shuffles
\* A pseudo-random permutation of n positions fixed by n, the seed and the
\* generator's stream: position i takes the row at (a * i + c) mod n, with
\* the offset c and the multiplier a (coprime to n) drawn from the seed.
Lcg(x) == (x * 1229 + 11) % 65537

Coprime(a, n) == \A d \in 2..n : ~(a % d = 0 /\ n % d = 0)

Multiplier(n, x) ==
    LET start == (Lcg(x) % n) + 1
        cand == {a \in start..(start + n) : Coprime(a, n)}
    IN  CHOOSE a \in cand : \A o \in cand : a <= o

Permute(rows, x) ==
    LET n == Len(rows)
        a == IF n = 0 THEN 1 ELSE Multiplier(n, x)
        c == Lcg(Lcg(x)) \div 16
    IN  [i \in 1..n |-> rows[((a * i + c) % n) + 1]]

\* DataFrame.sample(frac=1, random_state=seed): a permutation of the rows
\* fixed by their number and the seed.
Sample(rows, seed) == Permute(rows, seed)

\* split_pandas_data_with_ratios: k consecutive slices of the (shuffled)
\* rows; slice i carries split_index i - 1.
split_pandas_data_with_ratios(rows, ratio, shuffle, seed) ==
    LET order == IF shuffle THEN Sample(rows, seed) ELSE rows
        b == Boundaries(Len(rows), ratio)
    IN  [i \in 1..Len(ratio.nums) |-> SubSeq(order, b[i - 1] + 1, b[i])]

\* sklearn train_test_split(data, test_size=None, train_size=ratio,
\* random_state=seed): n_train = floor(ratio * n), the test set is the
\* complement; an empty train set is an error.  The test rows are the head
\* of the permutation, the train rows follow.
sk_split(rows, p, seed) ==
    LET n == Len(rows)
        n_train == (p.nums[1] * n) \div p.den
        n_test == n - n_train
        perm == Permute(rows, seed + 7)
    IN  IF n_train = 0 THEN [ok |-> FALSE, splits |-> <<>>]
        ELSE [ok |-> TRUE,
              splits |-> <<SubSeq(perm, n_test + 1, n), SubSeq(perm, 1, n_test)>>]

\* min_rating_filter_pandas: keep the rows whose group (by filter_by) has at
\* least min_rating rows.
KeyOf(d, col, id) == IF col = "user" THEN d[id].user ELSE d[id].item

min_rating_filter_pandas(d, ids, m, by) ==
    SelectIds(ids, {id \in Range(ids) :
        Cardinality({j \in Range(ids) : KeyOf(d, by, j) = KeyOf(d, by, id)}) >= m})

\* ------------------------------------------------------------------ inputs
RECURSIVE SeqsUpTo(_, _)
SeqsUpTo(S, n) ==
    IF n = 0 THEN {<<>>}
    ELSE LET shorter == SeqsUpTo(S, n - 1)
         IN  shorter \cup {Append(s, x) : s \in {t \in shorter : Len(t) = n - 1}, x \in S}

Datasets == SeqsUpTo(Row, MaxRows)

\* Users A (five rows, user 1) and B (one row, user 2), B at any position;
\* timestamps ascending, descending, or with ties.
ScenarioDatasets ==
    {[i \in 1..6 |-> [user |-> IF i = b THEN 2 ELSE 1, item |-> 1,
                      ts |-> IF t = "asc" THEN i
                             ELSE IF t = "desc" THEN 7 - i ELSE i \div 2]] :
        b \in 1..6, t \in {"asc", "desc", "ties"}}

\* One hundred rows of one user.
HundredRows == [i \in 1..100 |-> [user |-> 1, item |-> 1, ts |-> 1]]

SmallDatasets == {<<>>, <<[user |-> 1, item |-> 1, ts |-> 1]>>}

AllColumns == {"userID", "itemID", "timestamp"}

ValidRatios == {Float(3, 4), List(<<1, 1, 2>>, 1), List(<<1, 1>>, 2)}
InvalidRatios == {Float(1, 1), List(<<1>>, 1), List(<<0, 1>>, 1)}

Call(e, d, c, r, m, f, ir, s) ==
    [entry |-> e, data |-> d, columns |-> c, ratio |-> r, min_rating |-> m,
     filter_by |-> f, is_random |-> ir, seed |-> s]

StratifiedEntries == {"_do_stratification", "python_chrono_split"}

\* python_chrono_split has no is_random and no seed parameter.
ModesOf(e) == IF e = "python_chrono_split" THEN {FALSE} ELSE BOOLEAN
SeedsOf(e) == IF e = "python_chrono_split" THEN {DefaultSeed} ELSE Seeds

\* Calls with valid arguments, on every dataset of at most MaxRows rows.
GeneralInput(i) ==
    \/ \E d \in Datasets, r \in ValidRatios, s \in Seeds :
          i = Call("python_random_split", d, AllColumns, r, 1, "user", TRUE, s)
    \/ \E d \in Datasets, r \in ValidRatios, m \in 1..3, f \in {"user", "item"},
          s \in Seeds :
          i = Call("_do_stratification", d, AllColumns, r, m, f, TRUE, s)
    \/ \E d \in Datasets, r \in ValidRatios, m \in 1..3, f \in {"user", "item"} :
          i = Call("python_chrono_split", d, AllColumns, r, m, f, FALSE, DefaultSeed)

\* The worked examples: users A and B with ratio 0.8, and one hundred rows
\* with the list [1, 1, 2].
ScenarioInput(i) ==
    \/ \E e \in StratifiedEntries, d \in ScenarioDatasets, m \in 1..3 :
          i = Call(e, d, AllColumns, Float(4, 5), m, "user",
                   e = "_do_stratification", DefaultSeed)
    \/ \E e \in {"python_random_split", "_do_stratification"}, s \in Seeds :
          i = Call(e, HundredRows, AllColumns, List(<<1, 1, 2>>, 1), 1, "user", TRUE, s)

\* Every combination of arguments, valid or not, on at most one row.
SmallInput(i) ==
    \/ \E d \in SmallDatasets, r \in ValidRatios \cup InvalidRatios, s \in Seeds :
          i = Call("python_random_split", d, AllColumns, r, 1, "user", TRUE, s)
    \/ \E e \in StratifiedEntries, d \in SmallDatasets, c \in SUBSET AllColumns,
          r \in ValidRatios \cup InvalidRatios, m \in 0..2,
          f \in {"user", "item", "rating"} :
          \E ir \in ModesOf(e), s \in SeedsOf(e) :
             i = Call(e, d, c, r, m, f, ir, s)

\* ------------------------------------------------------------------- state
VARIABLES
    input,       \* the arguments of the call
    pc,          \* position in the call
    is_random,   \* parameter is_random of _do_stratification
    seed,        \* parameter seed of _do_stratification
    ratio,       \* local ratio after lines 71-75
    data,        \* local data (row ids), reassigned by the activity filter
    df_grouped,  \* the grouped frame: row order and the groups not yet visited
    splits,      \* list of per-group frames of (row, split_index)
    result,      \* outcome of the call
    calls,       \* 1 in the first call with these arguments, 2 in the second
    prev         \* outcome of the previous call with these arguments

vars == <<input, pc, is_random, seed, ratio, data, df_grouped, splits, result,
          calls, prev>>

NoRatio == [nums |-> <<>>, den |-> 1]
NoGroups == [order |-> <<>>, keys |-> {}]
NoResult == [status |-> "none", splits_list |-> <<>>, error |-> ""]

Returned(sl) == [status |-> "returned", splits_list |-> sl, error |-> ""]
Raised(msg) == [status |-> "raised", splits_list |-> <<>>, error |-> msg]

\* What a caller can tell two outcomes apart by: the error, or which rows
\* each output set holds.
Outcome(r) ==
    [status |-> r.status, error |-> r.error,
     assignment |-> [x \in 1..Len(r.splits_list) |-> Range(r.splits_list[x])]]

Ids(d) == [i \in 1..Len(d) |-> i]

Init ==
    /\ \/ GeneralInput(input)
       \/ ScenarioInput(input)
       \/ SmallInput(input)
    /\ pc = "idle"
    /\ is_random = TRUE
    /\ seed = DefaultSeed
    /\ ratio = NoRatio
    /\ data = <<>>
    /\ df_grouped = NoGroups
    /\ splits = <<>>
    /\ result = NoResult
    /\ calls = 1
    /\ prev = Outcome(NoResult)

col_user == "userID"
col_item == "itemID"
col_timestamp == "timestamp"

\* ----------------------------------------------------- python_random_split
python_random_split ==
    /\ pc = "idle"
    /\ input.entry = "python_random_split"
    /\ LET p == process_split_ratio(input.ratio)
           rows == Ids(input.data)
       IN  result' =
             IF ~p.ok THEN Raised("Invalid split ratio")
             ELSE IF p.multi
                  THEN Returned(split_pandas_data_with_ratios(
                           rows, [nums |-> p.nums, den |-> p.den], TRUE, input.seed))
                  ELSE LET s == sk_split(rows, p, input.seed)
                       IN  IF s.ok THEN Returned(s.splits)
                           ELSE Raised("the resulting train set will be empty")
    /\ pc' = "done"
    /\ UNCHANGED <<input, is_random, seed, ratio, data, df_grouped, splits, calls, prev>>

\* ----------------------------------------------------- python_chrono_split
python_chrono_split ==
    /\ pc = "idle"
    /\ input.entry = "python_chrono_split"
    /\ is_random' = FALSE
    /\ seed' = DefaultSeed
    /\ data' = Ids(input.data)
    /\ pc' = "check"
    /\ UNCHANGED <<input, ratio, df_grouped, splits, result, calls, prev>>

\* A direct call of _do_stratification.
do_stratification ==
    /\ pc = "idle"
    /\ input.entry = "_do_stratification"
    /\ is_random' = input.is_random
    /\ seed' = input.seed
    /\ data' = Ids(input.data)
    /\ pc' = "check"
    /\ UNCHANGED <<input, ratio, df_grouped, splits, result, calls, prev>>

\* ------------------------------------------------ preliminary checks 55-69
FilterByAny(f) == TRUE

FilterByOk(f) == f = "user" \/ f = "item"

TimestampAlways(r) == TRUE

TimestampRequired(r) == ~r

Raise(msg) ==
    /\ result' = Raised(msg)
    /\ pc' = "done"
    /\ UNCHANGED <<input, is_random, seed, ratio, data, df_grouped, splits, calls, prev>>

RaiseFilterBy ==
    /\ pc = "check"
    /\ ~FilterByOk(input.filter_by)
    /\ Raise("filter_by should be either 'user' or 'item'.")

RaiseMinRating ==
    /\ pc = "check"
    /\ FilterByOk(input.filter_by)
    /\ input.min_rating < 1
    /\ Raise("min_rating should be integer and larger than or equal to 1.")

RaiseMissingUser ==
    /\ pc = "check"
    /\ FilterByOk(input.filter_by)
    /\ ~(input.min_rating < 1)
    /\ col_user \notin input.columns
    /\ Raise("Schema of data not valid. Missing User Col")

RaiseMissingItem ==
    /\ pc = "check"
    /\ FilterByOk(input.filter_by)
    /\ ~(input.min_rating < 1)
    /\ col_user \in input.columns
    /\ col_item \notin input.columns
    /\ Raise("Schema of data not valid. Missing Item Col")

RaiseMissingTimestamp ==
    /\ pc = "check"
    /\ FilterByOk(input.filter_by)
    /\ ~(input.min_rating < 1)
    /\ col_user \in input.columns
    /\ col_item \in input.columns
    /\ TimestampRequired(is_random)
    /\ col_timestamp \notin input.columns
    /\ Raise("Schema of data not valid. Missing Timestamp Col")

ChecksPass ==
    /\ FilterByOk(input.filter_by)
    /\ ~(input.min_rating < 1)
    /\ col_user \in input.columns
    /\ col_item \in input.columns
    /\ TimestampRequired(is_random) => col_timestamp \in input.columns

\* Lines 71-75: process_split_ratio, split_by_column, the two-way ratio.
RaiseRatio ==
    /\ pc = "check"
    /\ ChecksPass
    /\ ~process_split_ratio(input.ratio).ok
    /\ Raise("Invalid split ratio")

ProcessRatio ==
    /\ pc = "check"
    /\ ChecksPass
    /\ process_split_ratio(input.ratio).ok
    /\ ratio' = TwoWayRatio(process_split_ratio(input.ratio))
    /\ pc' = "filter"
    /\ UNCHANGED <<input, is_random, seed, data, df_grouped, splits, result, calls, prev>>

split_by_column == IF input.filter_by = "user" THEN "user" ELSE "item"

\* ------------------------------------------------- activity filter, 77-84
FilteredDataAboveTwo(d, ids, m, by) ==
    IF m > 2 THEN min_rating_filter_pandas(d, ids, m, by) ELSE ids

FilteredData(d, ids, m, by) ==
    IF m > 1 THEN min_rating_filter_pandas(d, ids, m, by) ELSE ids

MinRatingFilter ==
    /\ pc = "filter"
    /\ data' = FilteredData(input.data, data, input.min_rating, input.filter_by)
    /\ pc' = "group"
    /\ UNCHANGED <<input, is_random, seed, ratio, df_grouped, splits, result, calls, prev>>

\* ------------------------------------------------------- grouping, 90-94
IsSortedBy(d, s) == \A i \in 1..(Len(s) - 1) : d[s[i]].ts <= d[s[i + 1]].ts

Perms(s) ==
    {[i \in 1..Len(s) |-> s[f[i]]] :
        f \in {g \in [1..Len(s) -> 1..Len(s)] : \A i, j \in 1..Len(s) : g[i] = g[j] => i = j}}

\* data.sort_values(col_timestamp): ascending timestamps; the default sort
\* is not stable, so rows with equal timestamps come in any order.
sort_values(d, ids) == {s \in Perms(ids) : IsSortedBy(d, s)}

FrameOrdersUnsorted(d, ids, r) == {ids}

FrameOrders(d, ids, r) == IF r = FALSE THEN sort_values(d, ids) ELSE {ids}

GroupBy ==
    /\ pc = "group"
    /\ \E s \in FrameOrders(input.data, data, is_random) :
          df_grouped' = [order |-> s,
                         keys |-> {KeyOf(input.data, split_by_column, id) : id \in Range(s)}]
    /\ pc' = "loop"
    /\ UNCHANGED <<input, is_random, seed, ratio, data, splits, result, calls, prev>>

\* ------------------------------------------------- per-group loop, 96-104
\* The rows of one group, in the order of the grouped frame.
GroupOfWholeFrame(g) == df_grouped.order

GroupOf(g) ==
    SelectIds(df_grouped.order,
              {id \in Range(df_grouped.order) : KeyOf(input.data, split_by_column, id) = g})

group_splits_shuffled(group) ==
    split_pandas_data_with_ratios(group, ratio, TRUE, seed)

group_splits_running_seed(group) ==
    split_pandas_data_with_ratios(group, ratio, is_random, seed + Len(splits))

group_splits_call_seed(group) ==
    split_pandas_data_with_ratios(group, ratio, is_random, seed + calls)

group_splits(group) ==
    split_pandas_data_with_ratios(group, ratio, is_random, seed)

\* pd.concat(group_splits): the slices in order, each row with its
\* split_index.
Tagged(gs) ==
    Flatten([i \in 1..Len(gs) |->
                [j \in 1..Len(gs[i]) |-> [row |-> gs[i][j], split_index |-> i - 1]]])

\* The loop body for one group.  pandas visits the groups in ascending key
\* order; the model lets any unvisited group come next.
SplitGroup ==
    /\ pc = "loop"
    /\ \E g \in df_grouped.keys :
          /\ splits' = Append(splits, Tagged(group_splits(GroupOf(g))))
          /\ df_grouped' = [df_grouped EXCEPT !.keys = @ \ {g}]
    /\ UNCHANGED <<input, pc, is_random, seed, ratio, data, result, calls, prev>>

\* ------------------------------------------------------ reassembly, 107-115
\* splits_all[splits_all["split_index"] == x].drop("split_index", axis=1)
RowsWithIndex(all, x) ==
    LET sel == SelectSeq(all, LAMBDA t : t.split_index = x)
    IN  [j \in 1..Len(sel) |-> sel[j].row]

splits_list_short(all, k) == [x \in 1..(k - 1) |-> RowsWithIndex(all, x - 1)]

splits_list(all, k) == [x \in 1..k |-> RowsWithIndex(all, x - 1)]

\* pd.concat of an empty list raises ValueError.
RaiseConcat ==
    /\ pc = "loop"
    /\ df_grouped.keys = {}
    /\ splits = <<>>
    /\ Raise("No objects to concatenate")

TakeSplits ==
    /\ pc = "loop"
    /\ df_grouped.keys = {}
    /\ splits # <<>>
    /\ result' = Returned(splits_list(Flatten(splits), Len(ratio.nums)))
    /\ pc' = "done"
    /\ UNCHANGED <<input, is_random, seed, ratio, data, df_grouped, splits, calls, prev>>

\* ------------------------------------------------------------ a second call
\* The caller makes a second call with the same arguments; nothing but the
\* call counter and the outcome of the first call survives.
CallAgain ==
    /\ pc = "done"
    /\ calls = 1
    /\ prev' = Outcome(result)
    /\ calls' = calls + 1
    /\ pc' = "idle"
    /\ is_random' = TRUE
    /\ seed' = DefaultSeed
    /\ ratio' = NoRatio
    /\ data' = <<>>
    /\ df_grouped' = NoGroups
    /\ splits' = <<>>
    /\ result' = NoResult
    /\ UNCHANGED input

Next ==
    \/ python_random_split
    \/ python_chrono_split
    \/ do_stratification
    \/ RaiseFilterBy
    \/ RaiseMinRating
    \/ RaiseMissingUser
    \/ RaiseMissingItem
    \/ RaiseMissingTimestamp
    \/ RaiseRatio
    \/ ProcessRatio
    \/ MinRatingFilter
    \/ GroupBy
    \/ SplitGroup
    \/ RaiseConcat
    \/ TakeSplits
    \/ CallAgain

Spec == Init /\ [][Next]_vars

\* =================================================================== claims
Stratified == input.entry \in StratifiedEntries
Done == pc = "done"
ReturnedOk == Done /\ result.status = "returned"
NumRows == Len(input.data)

\* The arguments pass every check of the call.
ValidArgs ==
    /\ input.filter_by \in {"user", "item"}
    /\ input.min_rating >= 1
    /\ "userID" \in input.columns
    /\ "itemID" \in input.columns
    /\ (~is_random) => "timestamp" \in input.columns
    /\ process_split_ratio(input.ratio).ok

\* Number of output sets the ratio argument asks for.
K == IF input.ratio.kind = "float" THEN 2 ELSE Len(input.ratio.nums)

Key(id) == IF input.filter_by = "user" THEN input.data[id].user ELSE input.data[id].item
GroupSize(id) == Cardinality({j \in 1..NumRows : Key(j) = Key(id)})
Kept == {id \in 1..NumRows : GroupSize(id) >= input.min_rating}

\* Places (output set, position) at which a row occurs in the outputs.
Places(id) ==
    {<<x, j>> \in (1..Len(result.splits_list)) \X (1..NumRows) :
        j <= Len(result.splits_list[x]) /\ result.splits_list[x][j] = id}
Out(x) == Range(result.splits_list[x])
OutOfGroup(x, g) == {id \in Out(x) : Key(id) = g}

\* C1: a valid stratified call puts every row that survives the activity
\* filter in exactly one output set, exactly once, and no filtered row in any.
C1_RowConservation ==
    (Stratified /\ Done /\ ValidArgs) =>
        \A id \in 1..NumRows :
            Cardinality(Places(id)) = IF id \in Kept THEN 1 ELSE 0

C1_Witness ==
    /\ Stratified /\ ReturnedOk
    /\ Kept # {} /\ Kept # 1..NumRows
    /\ \E x, y \in 1..Len(result.splits_list) : x # y /\ Out(x) # {} /\ Out(y) # {}

\* C2: of a group of n rows (the whole dataset for the multi-way random
\* split) output i receives b_i - b_(i-1) rows, b_i = round(c_i * n) and
\* b_k = n, which is within 1 of round(r_i * n); [1, 1, 2] on 100 rows gives
\* 25/25/50.
Canon == TwoWayRatio(process_split_ratio(input.ratio))
Within1(a, b) == a - b \in {-1, 0, 1}
SizesAsRatio(sizes, n) ==
    LET c == Canon
        b == [i \in 0..K |-> IF i = 0 THEN 0 ELSE IF i = K THEN n
                             ELSE Round(SumSeq(SubSeq(c.nums, 1, i)) * n, c.den)]
    IN  \A i \in 1..K :
            /\ sizes[i] = b[i] - b[i - 1]
            /\ Within1(sizes[i], Round(c.nums[i] * n, c.den))

C2_RatioFidelity ==
    /\ (Stratified /\ ReturnedOk) =>
          \A g \in {Key(id) : id \in Kept} :
              SizesAsRatio([x \in 1..K |-> Cardinality(OutOfGroup(x, g))],
                           Cardinality({id \in Kept : Key(id) = g}))
    /\ (input.entry = "python_random_split" /\ input.ratio.kind = "list" /\ ReturnedOk) =>
          SizesAsRatio([x \in 1..K |-> Len(result.splits_list[x])], NumRows)
    /\ (ReturnedOk /\ NumRows = 100 /\ input.ratio = List(<<1, 1, 2>>, 1)) =>
          [x \in 1..3 |-> Len(result.splits_list[x])] = <<25, 25, 50>>

C2_Witness ==
    /\ Stratified /\ ReturnedOk /\ NumRows = 100
    /\ [x \in 1..3 |-> Cardinality(Out(x))] = <<25, 25, 50>>

\* C3: with threshold m and key filter_by, the rows of a group of fewer than
\* m rows are in no output set and the rows of a group of m or more rows are
\* all in the outputs (so m = 1 removes nothing); users A (5 rows) and B
\* (1 row) with min_rating 2 and ratio 0.8 give A split 4/1 and B dropped.
InOutputs(id) == \E x \in 1..Len(result.splits_list) : id \in Out(x)
IsScenario == NumRows = 6 /\ input.ratio = Float(4, 5) /\ input.min_rating = 2

C3_ActivityFilter ==
    /\ (Stratified /\ Done /\ ValidArgs) =>
          /\ \A id \in 1..NumRows :
                /\ GroupSize(id) < input.min_rating => ~InOutputs(id)
                /\ GroupSize(id) >= input.min_rating => InOutputs(id)
          /\ input.min_rating = 1 => \A id \in 1..NumRows : InOutputs(id)
    /\ (Stratified /\ Done /\ IsScenario) =>
          /\ result.status = "returned"
          /\ Cardinality(OutOfGroup(1, 1)) = 4
          /\ Cardinality(OutOfGroup(2, 1)) = 1
          /\ OutOfGroup(1, 2) \cup OutOfGroup(2, 2) = {}

C3_Witness ==
    /\ Stratified /\ ReturnedOk /\ IsScenario
    /\ Cardinality(Out(1)) = 4 /\ Cardinality(Out(2)) = 1

\* C4: in chronological mode the rows of one group inside one output set
\* are in ascending timestamp order and in the relative order they have in
\* the timestamp-sorted dataset.
PosIn(s, id) == CHOOSE i \in 1..Len(s) : s[i] = id
SameGroupPairs(x) ==
    {p \in (1..Len(result.splits_list[x])) \X (1..Len(result.splits_list[x])) :
        /\ p[1] < p[2]
        /\ Key(result.splits_list[x][p[1]]) = Key(result.splits_list[x][p[2]])}

RandomMode == input.entry = "python_random_split" \/ (Stratified /\ input.is_random)

FilterByError == "filter_by should be either 'user' or 'item'."

C6_AllOrNothing ==
    Stratified =>
        /\ Done => \/ result.status = "returned" /\ Len(result.splits_list) = K
                   \/ result.status = "raised" /\ result.splits_list = <<>>
        /\ (Done /\ ~ValidArgs) => result.status = "raised"
        /\ input.filter_by \notin {"user", "item"} =>
              /\ pc \in {"idle", "check", "done"}
              /\ ratio = NoRatio /\ df_grouped = NoGroups /\ splits = <<>>
              /\ Done => result = Raised(FilterByError)

C6_Witness ==
    /\ Stratified /\ Done
    /\ input.filter_by \notin {"user", "item"}
    /\ input.min_rating < 1 /\ input.columns = {} /\ ~process_split_ratio(input.ratio).ok
    /\ result = Raised(FilterByError)

\* C7: with valid filter_by and min_rating, a dataset with user and item
\* columns and no timestamp column is rejected with the missing-timestamp
\* error exactly when is_random is false, and in random mode it is split; a
\* dataset without the user (item) column is rejected in both modes with
\* the error naming that column.
SchemaErrors ==
    {"Schema of data not valid. Missing User Col",
     "Schema of data not valid. Missing Item Col",
     "Schema of data not valid. Missing Timestamp Col"}

C7_TimestampOnlyChrono ==
    (Stratified /\ Done /\ input.filter_by \in {"user", "item"} /\ input.min_rating >= 1) =>
        /\ ({"userID", "itemID"} \subseteq input.columns /\ "timestamp" \notin input.columns) =>
              /\ (result.error = "Schema of data not valid. Missing Timestamp Col")
                    <=> (is_random = FALSE)
              /\ is_random => result.error \notin SchemaErrors
              /\ (is_random /\ process_split_ratio(input.ratio).ok /\ Kept # {}) =>
                    result.status = "returned"
        /\ "userID" \notin input.columns =>
              result = Raised("Schema of data not valid. Missing User Col")
        /\ ("userID" \in input.columns /\ "itemID" \notin input.columns) =>
              result = Raised("Schema of data not valid. Missing Item Col")

C7_Witness ==
    /\ Stratified /\ ReturnedOk /\ is_random
    /\ input.columns = {"userID", "itemID"}
    /\ NumRows > 0 /\ Out(1) # {}

\* C8: the rows of each output set of a stratified call are those that
\* partitioning every group on its own (its rows, the seed, the ratios)
\* assigns to that index, whatever the order in which the groups were visited.
GroupRowsOf(g) == SelectIds(df_grouped.order, {id \in 1..NumRows : Key(id) = g})

C8_GroupOrderIrrelevant ==
    (Stratified /\ ReturnedOk) =>
        \A x \in 1..K :
            Out(x) = UNION {Range(split_pandas_data_with_ratios(
                                      GroupRowsOf(g), ratio, is_random, seed)[x]) :
                            g \in {Key(id) : id \in Kept}}

C8_Witness ==
    /\ Stratified /\ ReturnedOk /\ is_random
    /\ Len(splits) = 2
    /\ Key(splits[1][1].row) > Key(splits[2][1].row)
    /\ Len(splits[2]) > 1

\* C9: splitting zero rows (an empty dataset, or one the activity filter
\* empties) returns k empty output sets and raises no error.
C9_EmptyIsNoError ==
    (Done /\ (Stratified => ValidArgs) /\ process_split_ratio(input.ratio).ok
          /\ (IF Stratified THEN Kept = {} ELSE NumRows = 0)) =>
        /\ result.status = "returned"
        /\ Len(result.splits_list) = K
        /\ \A x \in 1..K : result.splits_list[x] = <<>>

====
